---- MODULE Spec2Model ----
(***************************************************************************)
(* A model of dash_afg.py: the module-level data load, the event-map       *)
(* callback (update_event_map with add_br_to_description) and the line     *)
(* plot / table callback (update_line_plot_and_table).                     *)
(*                                                                         *)
(* Representation.                                                         *)
(*  - A Python str that the code transforms or sorts is a sequence of      *)
(*    one-character strings; labels that are only passed through are TLA+  *)
(*    strings.                                                             *)
(*  - A date string of the indicator file is <<year, month, day>>;         *)
(*    a pandas Timestamp is the integer year*10000 + month*100 + day,      *)
(*    which orders as the calendar does.                                   *)
(*  - A float of the indicator table is an integer number of tenths; the   *)
(*    result of np.round(x, 0) is an integer number of units.              *)
(*  - A cell of the event table that may be empty (NaN) is <<>> when       *)
(*    empty and <<v>> when it holds v.                                     *)
(*                                                                         *)
(* Inputs.  The files are drawn from finite pools.  In the event file the  *)
(* cells latitude, longitude, event_type and fatalities may be empty;      *)
(* actor1, sub_event_type and notes always hold a str.  The indicator      *)
(* columns hold numbers and no date occurs twice in an indicator file.     *)
(* The callbacks are asked for dates inside and outside their tables.      *)
(***************************************************************************)
EXTENDS Integers, Sequences, FiniteSets, TLC

VARIABLES
    afghanistan_csv,  \* rows of data/Afghanistan.csv (the indicator file)
    afg_csv,          \* rows of data/Afg.csv (the event file)
    data,             \* module global `data` (indicator DataFrame rows)
    event_data,       \* module global `event_data` (event DataFrame rows)
    pc,               \* "start" | "serving" | "crashed"
    request,          \* the inputs of the last callback invocation
    response,         \* what the last callback returned to its caller
    log               \* exception types the server has reported so far

vars == <<afghanistan_csv, afg_csv, data, event_data, pc, request, response, log>>

----------------------------------------------------------------------------
(* Bounds of the model *)

\* an indicator file lacks at most this many of the dates of DatePool
MaxMissing == 2
\* number of value layouts the indicator files are filled with
NVariants == 2
\* an event file of EventFiles holds at most this many records
MaxEvents == 3
\* a note of WrapNotes is built from at most this many blocks
MaxBlocks == 3

----------------------------------------------------------------------------
(* Strings *)

\* the characters the model uses, in code point order
Ascii == <<"\n", " ", ",", "/", "1", "3", ":", "<", ">",
           "A", "B", "E", "G", "I", "K", "L", "O", "P", "R", "S", "T", "V", "W", "Y",
           "_", "a", "b", "c", "d", "e", "f", "g", "h", "i", "k", "l", "m", "n",
           "o", "p", "q", "r", "s", "t", "u", "v", "w", "x", "y">>

Ord(c) == CHOOSE i \in 1..Len(Ascii) : Ascii[i] = c

\* Python's str < str: lexicographic by code point
StrLess(s, t) ==
    LET n == IF Len(s) < Len(t) THEN Len(s) ELSE Len(t)
        differ == { i \in 1..n : s[i] # t[i] }
    IN  IF differ = {} THEN Len(s) < Len(t)
        ELSE LET i == CHOOSE d \in differ : \A e \in differ : d <= e
             IN  Ord(s[i]) < Ord(t[i])

\* str.replace(old, new) for a one-character old, computed by halves
RECURSIVE StrReplace(_, _, _)
StrReplace(s, old, new) ==
    IF s = <<>> THEN <<>>
    ELSE IF Len(s) = 1 THEN (IF s[1] = old THEN new ELSE s)
    ELSE LET h == Len(s) \div 2
         IN  StrReplace(SubSeq(s, 1, h), old, new) \o StrReplace(SubSeq(s, h + 1, Len(s)), old, new)

\* sep.join(parts)
RECURSIVE StrJoin(_, _)
StrJoin(sep, parts) ==
    IF parts = <<>> THEN <<>>
    ELSE IF Len(parts) = 1 THEN parts[1]
    ELSE parts[1] \o sep \o StrJoin(sep, Tail(parts))

\* sorted(set(x)) for an iterable of str
RECURSIVE SortedStrSet(_)
SortedStrSet(S) ==
    IF S = {} THEN <<>>
    ELSE LET m == CHOOSE x \in S : \A y \in S \ {x} : StrLess(x, y)
         IN  <<m>> \o SortedStrSet(S \ {m})

Range(s) == { s[i] : i \in 1..Len(s) }

Rep(c, n) == [i \in 1..n |-> c]

----------------------------------------------------------------------------
(* Dates *)

DaysIn(y, m) ==
    IF m \in {4, 6, 9, 11} THEN 30
    ELSE IF m = 2 THEN (IF y % 4 = 0 /\ (y % 100 # 0 \/ y % 400 = 0) THEN 29 ELSE 28)
    ELSE 31

\* whether pd.to_datetime(s, format='%Y-%m-%d') accepts s
ValidDate(s) ==
    /\ s[2] \in 1..12
    /\ s[3] \in 1..DaysIn(s[1], s[2])

\* pd.to_datetime of an accepted date string
to_datetime(s) == s[1] * 10000 + s[2] * 100 + s[3]

windowStart == to_datetime(<<2020, 1, 1>>)
windowEnd == to_datetime(<<2022, 1, 1>>)

----------------------------------------------------------------------------
(* The indicator table *)

\* column names of data/Afghanistan.csv that the model carries
col_event_date == <<"e", "v", "e", "n", "t", "_", "d", "a", "t", "e">>
col_country == <<"c", "o", "u", "n", "t", "r", "y">>
col_month == <<"m", "o", "n", "t", "h">>
col_violence_index == <<"v", "i", "o", "l", "e", "n", "c", "e", " ", "i", "n", "d", "e", "x">>
col_moving_avg == <<"v", "i", "o", "l", "e", "n", "c", "e", " ", "i", "n", "d", "e", "x", "_", "m", "o", "v", "i", "n", "g", "_", "a", "v", "g">>
col_battles == <<"B", "a", "t", "t", "l", "e", "s">>
col_riots == <<"R", "i", "o", "t", "s", "/", "P", "r", "o", "t", "e", "s", "t", "s">>

\* data.columns, in file order
data_columns == <<col_event_date, col_country, col_month, col_violence_index, col_moving_avg, col_battles, col_riots>>

unavailable_cols == <<
    <<"e", "v", "e", "n", "t", "_", "d", "a", "t", "e">>,
    <<"c", "o", "u", "n", "t", "r", "y">>,
    <<"I", "S", "O", "_", "3">>,
    <<"c", "a", "p", "i", "t", "a", "l", "_", "l", "a", "t">>,
    <<"c", "a", "p", "i", "t", "a", "l", "_", "l", "o", "n">>,
    <<"m", "o", "n", "t", "h">>,
    <<"q", "u", "a", "r", "t", "e", "r">>,
    <<"w", "e", "e", "k">>,
    <<"L", "e", "g", "i", "s", "l", "a", "t", "i", "v", "e">>,
    <<"L", "o", "c", "a", "l">>,
    <<"G", "e", "n", "e", "r", "a", "l">>,
    <<"P", "a", "r", "l", "i", "a", "m", "e", "n", "t", "a", "r", "y">>,
    <<"P", "r", "e", "s", "i", "d", "e", "n", "t", "i", "a", "l">>,
    <<"R", "e", "f", "e", "r", "e", "n", "d", "u", "m">>,
    <<"h", "o", "l", "i", "d", "a", "y">>
>>

unavailable_table_cols == <<
    <<"c", "o", "u", "n", "t", "r", "y">>,
    <<"m", "o", "n", "t", "h">>,
    <<"q", "u", "a", "r", "t", "e", "r">>,
    <<"w", "e", "e", "k">>,
    <<"e", "v", "e", "n", "t", "_", "d", "a", "t", "e">>,
    <<"c", "a", "p", "i", "t", "a", "l", "_", "l", "a", "t">>,
    <<"c", "a", "p", "i", "t", "a", "l", "_", "l", "o", "n">>,
    <<"I", "S", "O", "_", "3">>,
    <<"L", "e", "g", "i", "s", "l", "a", "t", "i", "v", "e">>,
    <<"L", "o", "c", "a", "l">>,
    <<"G", "e", "n", "e", "r", "a", "l">>,
    <<"P", "a", "r", "l", "i", "a", "m", "e", "n", "t", "a", "r", "y">>,
    <<"P", "r", "e", "s", "i", "d", "e", "n", "t", "i", "a", "l">>,
    <<"R", "e", "f", "e", "r", "e", "n", "d", "u", "m">>,
    <<"h", "o", "l", "i", "d", "a", "y">>
>>

\* the values of column_options: what the evolution-column dropdown offers
column_options == SelectSeq(data_columns, LAMBDA col : col \notin Range(unavailable_cols))

moving_avg_label == <<"V", "i", "o", "l", "e", "n", "c", "e", " ", "i", "n", "d", "e", "x", " ", "1", " ", "Y", "e", "a", "r", " ", "m", "o", "v", "i", "n", "g", " ", "a", "v", "e", "r", "a", "g", "e">>

----------------------------------------------------------------------------
(* The input files *)

\* the dates indicator files are drawn from: one before the window, the two
\* window bounds, the four dates the markers look up, the last day inside
\* the window, one after the window
DatePool == <<
    <<2019, 12, 27>>, <<2020, 1, 1>>, <<2020, 5, 1>>, <<2021, 2, 19>>, <<2021, 5, 7>>,
    <<2021, 8, 13>>, <<2021, 12, 31>>, <<2022, 1, 1>>, <<2022, 1, 7>>
>>

\* a date string pd.to_datetime rejects
BadDate == <<2021, 2, 30>>

\* indicator values in tenths: 120.0 and 95.0, a zero, fractions that round
\* to zero, ties after rounding, halves, a negative fraction
Profiles == <<
    [vi |-> 1200, ma |-> 950, battles |-> 0,  riots |-> 3],
    [vi |-> 15,   ma |-> 25,  battles |-> 12, riots |-> 14],
    [vi |-> 5,    ma |-> -3,  battles |-> 70, riots |-> 0]
>>

IndicatorRow(date, p) ==
    [c \in Range(data_columns) |->
        IF c = col_event_date THEN date
        ELSE IF c = col_country THEN "Afghanistan"
        ELSE IF c = col_month THEN date[2]
        ELSE IF c = col_violence_index THEN p.vi
        ELSE IF c = col_moving_avg THEN p.ma
        ELSE IF c = col_battles THEN p.battles
        ELSE p.riots]

\* the file that lacks the dates `missing` of DatePool, filled with layout v,
\* followed by one row with an unparseable date when `bad`
IndicatorFile(missing, v, bad) ==
    LET kept == SelectSeq([i \in 1..Len(DatePool) |-> i], LAMBDA i : i \notin missing)
        rows == [k \in 1..Len(kept) |->
                    IndicatorRow(DatePool[kept[k]], Profiles[((kept[k] + v) % Len(Profiles)) + 1])]
    IN  IF bad THEN Append(rows, IndicatorRow(BadDate, Profiles[1])) ELSE rows

\* the positions in DatePool of the dates strictly inside the window
InsideWindow ==
    { i \in 1..Len(DatePool) :
        windowStart < to_datetime(DatePool[i]) /\ to_datetime(DatePool[i]) < windowEnd }

\* the files that lack at most MaxMissing dates, and the files that have no
\* date inside the window
IndicatorFiles ==
    { IndicatorFile(missing, v, bad) :
        missing \in { m \in SUBSET (1..Len(DatePool)) : Cardinality(m) <= MaxMissing },
        v \in 1..NVariants, bad \in BOOLEAN }
    \cup { IndicatorFile(InsideWindow, v, FALSE) : v \in 1..NVariants }

\* two indicator files for the specifications that vary the event file
SmallIndicatorFiles == { IndicatorFile({}, 1, FALSE), IndicatorFile({3}, 1, FALSE) }

----------------------------------------------------------------------------
(* Module-level data load, lines 24-35 *)

\* data['event_date'] = pd.to_datetime(data['event_date'], format='%Y-%m-%d')
ParseDates(rows) ==
    [i \in 1..Len(rows) |-> [rows[i] EXCEPT ![col_event_date] = to_datetime(@)]]

\* a filter that keeps the row dated at the window start
FilterWindowInclusive(rows) ==
    LET after == SelectSeq(rows, LAMBDA r : r[col_event_date] >= windowStart)
    IN  SelectSeq(after, LAMBDA r : r[col_event_date] < windowEnd)

\* data = data[data['event_date'] > start]; data = data[data['event_date'] < end]
FilterWindow(rows) ==
    LET after == SelectSeq(rows, LAMBDA r : r[col_event_date] > windowStart)
    IN  SelectSeq(after, LAMBDA r : r[col_event_date] < windowEnd)

\* sorted(data['event_date'].unique())
available_dates(rows) == { rows[i][col_event_date] : i \in 1..Len(rows) }

NoRequest == [selected_date |-> "", selected_column |-> <<>>, plot_date |-> 0]
NoResponse == [handler |-> "none", status |-> "none", figure |-> <<>>, rows |-> <<>>]

\* to_datetime raises ValueError on an unparseable date, and
\* default_date = available_dates[-1] raises IndexError on an empty table:
\* either ends the process before it serves
load ==
    /\ pc = "start"
    /\ IF \E i \in 1..Len(afghanistan_csv) : ~ValidDate(afghanistan_csv[i][col_event_date])
       THEN /\ pc' = "crashed"
            /\ log' = log \cup {"ValueError"}
            /\ UNCHANGED <<data, event_data>>
       ELSE LET loaded == FilterWindow(ParseDates(afghanistan_csv))
            IN  /\ data' = loaded
                /\ event_data' = afg_csv
                /\ IF available_dates(loaded) = {}
                   THEN pc' = "crashed" /\ log' = log \cup {"IndexError"}
                   ELSE pc' = "serving" /\ UNCHANGED log
    /\ UNCHANGED <<afghanistan_csv, afg_csv, request, response>>

----------------------------------------------------------------------------
(* add_br_to_description, lines 156-168 *)

\* what \s matches among the characters of the model
IsSpace(c) == c \in {" ", "\n"}

\* whether (.{limit}\S*)\s matches at position i: limit characters none of
\* which is a newline, then the non-space run up to a whitespace character
MatchAt(text, limit, i) ==
    /\ i + limit - 1 <= Len(text)
    /\ \A k \in i..(i + limit - 1) : text[k] # "\n"
    /\ \E j \in (i + limit)..Len(text) : IsSpace(text[j])

\* the position of the whitespace character that ends the match at i
MatchEnd(text, limit, i) ==
    CHOOSE j \in (i + limit)..Len(text) :
        /\ IsSpace(text[j])
        /\ \A k \in (i + limit)..(j - 1) : ~IsSpace(text[k])

\* re.sub(pattern, r'\1<br> ', text) from position pos on: leftmost match,
\* non-overlapping, the matched whitespace replaced by '<br> '
RECURSIVE ReSubFrom(_, _, _)
ReSubFrom(text, limit, pos) ==
    IF \E i \in pos..Len(text) : MatchAt(text, limit, i)
    THEN LET i == CHOOSE m \in pos..Len(text) :
                    /\ MatchAt(text, limit, m)
                    /\ \A k \in pos..(m - 1) : ~MatchAt(text, limit, k)
             j == MatchEnd(text, limit, i)
         IN  SubSeq(text, pos, j - 1) \o <<"<", "b", "r", ">", " ">>
                 \o ReSubFrom(text, limit, j + 1)
    ELSE SubSeq(text, pos, Len(text))

insert_br_at_space(text, limit) == ReSubFrom(text, limit, 1)

add_br_to_description(description) ==
    LET description_with_slashes ==
            StrReplace(description, "/", <<"<", "b", "r", ">", "<", "b", "r", ">">>)
    IN  insert_br_at_space(description_with_slashes, 50)

----------------------------------------------------------------------------
(* update_event_map, lines 121-154 *)

NaN == <<>>
isna(cell) == cell = NaN

\* (latitude, longitude, event_type) of a record whose key cells are filled
KeyOf(r) == <<r.latitude[1], r.longitude[1], r.event_type[1]>>

\* the order groupby sorts its group keys in
KeyLess(a, b) ==
    \/ a[1] < b[1]
    \/ a[1] = b[1] /\ a[2] < b[2]
    \/ a[1] = b[1] /\ a[2] = b[2] /\ StrLess(a[3], b[3])

RECURSIVE SortedKeys(_)
SortedKeys(K) ==
    IF K = {} THEN <<>>
    ELSE LET m == CHOOSE x \in K : \A y \in K \ {x} : KeyLess(x, y)
         IN  <<m>> \o SortedKeys(K \ {m})

\* Series.sum(): empty cells are skipped
RECURSIVE SumFatalities(_)
SumFatalities(rows) ==
    IF rows = <<>> THEN 0
    ELSE (IF isna(Head(rows).fatalities) THEN 0 ELSE Head(rows).fatalities[1])
             + SumFatalities(Tail(rows))

\* groupby([...]).agg(...).reset_index(): groupby drops the rows with an
\* empty key cell (dropna=True, the default) and sorts the groups by key
GroupBy(filtered_df) ==
    LET keyed == SelectSeq(filtered_df, LAMBDA r :
                     ~isna(r.latitude) /\ ~isna(r.longitude) /\ ~isna(r.event_type))
        keys == SortedKeys({ KeyOf(keyed[i]) : i \in 1..Len(keyed) })
    IN  [g \in 1..Len(keys) |->
            LET members == SelectSeq(keyed, LAMBDA r : KeyOf(r) = keys[g])
            IN  [latitude |-> keys[g][1],
                 longitude |-> keys[g][2],
                 event_type |-> keys[g][3],
                 numerosity |-> Len(members),
                 fatalities |-> SumFatalities(members),
                 actors |-> StrJoin(<<",", " ">>, SortedStrSet({ members[i].actor1 : i \in 1..Len(members) })),
                 events |-> StrJoin(<<",", " ">>, SortedStrSet({ members[i].sub_event_type : i \in 1..Len(members) })),
                 description |-> StrJoin(<<"/">>, SortedStrSet({ members[i].notes : i \in 1..Len(members) }))]]

\* a callback that assigns the filtered frame to the module global
update_event_map_global(selected_date) ==
    /\ pc = "serving"
    /\ request' = [NoRequest EXCEPT !.selected_date = selected_date]
    /\ LET filtered_df == SelectSeq(event_data, LAMBDA r : r.event_date = selected_date)
           grouped == GroupBy(filtered_df)
           wrapped == [g \in 1..Len(grouped) |->
                          [grouped[g] EXCEPT !.description = add_br_to_description(@)]]
       IN  /\ response' = [handler |-> "update_event_map", status |-> "ok",
                           figure |-> wrapped, rows |-> <<>>]
           /\ event_data' = filtered_df
    /\ UNCHANGED <<afghanistan_csv, afg_csv, data, pc, log>>

update_event_map(selected_date) ==
    /\ pc = "serving"
    /\ request' = [NoRequest EXCEPT !.selected_date = selected_date]
    /\ LET filtered_df == SelectSeq(event_data, LAMBDA r : r.event_date = selected_date)
           grouped == GroupBy(filtered_df)
           wrapped == [g \in 1..Len(grouped) |->
                          [grouped[g] EXCEPT !.description = add_br_to_description(@)]]
       IN  response' = [handler |-> "update_event_map", status |-> "ok",
                        figure |-> wrapped, rows |-> <<>>]
    /\ UNCHANGED <<afghanistan_csv, afg_csv, data, event_data, pc, log>>

----------------------------------------------------------------------------
(* update_line_plot_and_table, lines 179-245 *)

\* a lookup that falls back to the first row of the table
RowsAtOrFirst(rows, date) ==
    LET found == SelectSeq(rows, LAMBDA r : r[col_event_date] = date)
    IN  IF found = <<>> /\ rows # <<>> THEN <<rows[1]>> ELSE found

\* data.loc[data['event_date'] == date]: the rows dated `date`, in table order
RowsAt(rows, date) == SelectSeq(rows, LAMBDA r : r[col_event_date] = date)

Column(rows, col) == [i \in 1..Len(rows) |-> rows[i][col]]

\* the fixed markers of lines 198-216: the date looked up, the date plotted
\* at, the trace name
Markers == <<
    [event_date |-> <<2020, 5, 1>>,  display_date |-> <<2020, 4, 29>>, name |-> "Trump withdrawal announcement"],
    [event_date |-> <<2021, 2, 19>>, display_date |-> <<2021, 2, 14>>, name |-> "Biden moves withdrawal"],
    [event_date |-> <<2021, 5, 7>>,  display_date |-> <<2021, 5, 1>>,  name |-> "Withdrawal begins"],
    [event_date |-> <<2021, 8, 13>>, display_date |-> <<2021, 8, 15>>, name |-> "Taliban enter Kabul"]
>>

\* the dates whose lookup `.values[0]` the callback performs, in order
LookupDates(plot_date) ==
    <<plot_date>> \o [m \in 1..Len(Markers) |-> to_datetime(Markers[m].event_date)]

\* np.round(x, 0) of x tenths, in units: halves go to the even neighbour
np_round(x) ==
    LET q == x \div 10
        r == x % 10
    IN  IF r < 5 THEN q
        ELSE IF r > 5 THEN q + 1
        ELSE IF q % 2 = 0 THEN q ELSE q + 1

\* lines 230-232
Relabel(col) ==
    LET string_col == StrReplace(StrReplace(col, "_", <<":", " ">>), "/", <<",", " ">>)
    IN  IF col = col_moving_avg THEN moving_avg_label ELSE string_col

\* the loop of lines 226-236 over the columns cols, on the row latest_values
RECURSIVE TableRows(_, _)
TableRows(cols, latest_values) ==
    IF cols = <<>> THEN <<>>
    ELSE LET col == Head(cols)
             rest == TableRows(Tail(cols), latest_values)
         IN  IF col \in Range(unavailable_table_cols) THEN rest
             ELSE LET new_row == [Country |-> Relabel(col),
                                  Afghanistan |-> np_round(latest_values[col])]
                  IN  IF latest_values[col] # 0 THEN <<new_row>> \o rest ELSE rest

\* an insertion that puts row before the rows of equal value
RECURSIVE InsertDescUnstable(_, _)
InsertDescUnstable(sorted, row) ==
    IF sorted = <<>> THEN <<row>>
    ELSE IF Head(sorted).Afghanistan > row.Afghanistan
         THEN <<Head(sorted)>> \o InsertDescUnstable(Tail(sorted), row)
         ELSE <<row>> \o sorted

\* where a stable descending sort puts row: behind every row that is not smaller
RECURSIVE InsertDesc(_, _)
InsertDesc(sorted, row) ==
    IF sorted = <<>> THEN <<row>>
    ELSE IF Head(sorted).Afghanistan >= row.Afghanistan
         THEN <<Head(sorted)>> \o InsertDesc(Tail(sorted), row)
         ELSE <<row>> \o sorted

\* sorted(new_table_data, key=lambda x: x['Afghanistan'], reverse=True)
RECURSIVE SortedDesc(_)
SortedDesc(rows) ==
    IF rows = <<>> THEN <<>>
    ELSE InsertDesc(SortedDesc(SubSeq(rows, 1, Len(rows) - 1)), rows[Len(rows)])

\* a second line drawn for the moving-average column as well
SecondLineForBoth(selected_column) ==
    IF selected_column \in {col_violence_index, col_moving_avg}
    THEN <<[name |-> "Violence index 1 Year moving average", mode |-> "lines",
            x |-> Column(data, col_event_date), y |-> Column(data, col_moving_avg)]>>
    ELSE <<>>

\* lines 185-188: the second line of the figure
SecondLine(selected_column) ==
    IF selected_column = col_violence_index
    THEN <<[name |-> "Violence index 1 Year moving average", mode |-> "lines",
            x |-> Column(data, col_event_date), y |-> Column(data, col_moving_avg)]>>
    ELSE <<>>

\* lines 181-216 when no lookup fails
LineFigure(selected_column, plot_date) ==
    LET line == <<[name |-> "", mode |-> "lines",
                   x |-> Column(data, col_event_date), y |-> Column(data, selected_column)]>>
        second == SecondLine(selected_column)
        selected == <<[name |-> "date selected", mode |-> "markers",
                       x |-> <<plot_date>>,
                       y |-> <<RowsAt(data, plot_date)[1][selected_column]>>]>>
        stars == [m \in 1..Len(Markers) |->
                    [name |-> Markers[m].name, mode |-> "markers",
                     x |-> <<to_datetime(Markers[m].display_date)>>,
                     y |-> <<RowsAt(data, to_datetime(Markers[m].event_date))[1][selected_column]>>]]
    IN  line \o second \o selected \o stars

\* `.values[0]` of an empty selection raises IndexError; the first lookup that
\* fails ends the callback, and Dash answers the request with an error
update_line_plot_and_table(selected_column, plot_date) ==
    /\ pc = "serving"
    /\ request' = [NoRequest EXCEPT !.selected_column = selected_column,
                                    !.plot_date = plot_date]
    /\ LET lookups == LookupDates(plot_date)
       IN  IF \E k \in 1..Len(lookups) : RowsAt(data, lookups[k]) = <<>>
           THEN /\ response' = [handler |-> "update_line_plot_and_table",
                                status |-> "IndexError", figure |-> <<>>, rows |-> <<>>]
                /\ log' = log \cup {"IndexError"}
           ELSE LET latest_values == RowsAt(data, plot_date)[1]
                    new_table_data == TableRows(data_columns, latest_values)
                IN  /\ response' = [handler |-> "update_line_plot_and_table",
                                    status |-> "ok",
                                    figure |-> LineFigure(selected_column, plot_date),
                                    rows |-> SortedDesc(new_table_data)]
                    /\ UNCHANGED log
    /\ UNCHANGED <<afghanistan_csv, afg_csv, data, event_data, pc>>

----------------------------------------------------------------------------
(* The event files *)

Event(date, lat, lon, type, sub, actor, fat, notes) ==
    [event_date |-> date, latitude |-> lat, longitude |-> lon, event_type |-> type,
     sub_event_type |-> sub, actor1 |-> actor, fatalities |-> fat, notes |-> notes]

s_battles == <<"B", "a", "t", "t", "l", "e", "s">>
s_riots == <<"R", "i", "o", "t", "s">>
s_clash == <<"A", "r", "m", "e", "d", " ", "c", "l", "a", "s", "h">>
s_shelling == <<"S", "h", "e", "l", "l", "i", "n", "g">>
s_taliban == <<"T", "a", "l", "i", "b", "a", "n">>
s_police == <<"P", "o", "l", "i", "c", "e">>

\* records of two dates: two that share a key, one that differs in event_type
\* only, one without latitude, one without event_type, one of another date
\* without fatalities
EventPool == {
    Event("2021-08-13", <<34>>, <<69>>, <<s_battles>>, s_clash, s_taliban, <<2>>, <<"a", "b">>),
    Event("2021-08-13", <<34>>, <<69>>, <<s_battles>>, s_shelling, s_police, <<3>>, <<"b", " ", "a">>),
    Event("2021-08-13", <<34>>, <<69>>, <<s_riots>>, s_clash, s_taliban, <<0>>, <<"a", "/", "b">>),
    Event("2021-08-13", NaN, <<69>>, <<s_battles>>, s_clash, s_taliban, <<1>>, <<"a">>),
    Event("2021-08-13", <<31>>, <<65>>, NaN, s_shelling, s_police, <<4>>, <<"b">>),
    Event("2021-08-14", <<31>>, <<65>>, <<s_riots>>, s_clash, s_police, NaN, <<"a", "b">>)
}

RECURSIVE SeqsUpTo(_, _)
SeqsUpTo(S, n) ==
    IF n = 0 THEN { <<>> }
    ELSE LET shorter == SeqsUpTo(S, n - 1)
         IN  shorter \cup { Append(q, x) : q \in { p \in shorter : Len(p) = n - 1 }, x \in S }

EventFiles == SeqsUpTo(EventPool, MaxEvents)

\* two event files for the specification that varies the indicator file
SmallEventFiles ==
    LET both == CHOOSE f \in EventFiles :
                    /\ Len(f) = 2
                    /\ f[1].notes = <<"a", "b">> /\ f[1].event_date = "2021-08-13"
                    /\ f[2].notes = <<"b", " ", "a">>
    IN  { <<>>, both }

\* the dates the callbacks are asked for
MapDates == {"2021-08-13", "2021-08-14", "2021-08-15"}
PlotDates == { to_datetime(d) : d \in {<<2020, 1, 1>>, <<2020, 5, 1>>, <<2021, 8, 13>>, <<2021, 12, 31>>} }

----------------------------------------------------------------------------
(* Specifications *)

InitWith(indicator_files, event_files) ==
    /\ afghanistan_csv \in indicator_files
    /\ afg_csv \in event_files
    /\ data = <<>>
    /\ event_data = <<>>
    /\ pc = "start"
    /\ request = NoRequest
    /\ response = NoResponse
    /\ log = {}

Next ==
    \/ load
    \/ \E selected_date \in MapDates : update_event_map(selected_date)
    \/ \E selected_column \in Range(column_options), plot_date \in PlotDates :
           update_line_plot_and_table(selected_column, plot_date)

\* every indicator file of the pool, two event files
Init == InitWith(IndicatorFiles, SmallEventFiles)
Spec == Init /\ [][Next]_vars

\* every event file of the pool, two indicator files
InitMap == InitWith(SmallIndicatorFiles, EventFiles)
SpecMap == InitMap /\ [][Next]_vars

\* notes that reach the 50-character limit: concatenations of at most
\* MaxBlocks blocks; an empty notes cell is not a str and is left out
WrapBlocks == { Rep("a", 50), <<"a">>, <<" ">>, <<"/">>, <<"\n">> }

RECURSIVE Concat(_)
Concat(parts) == IF parts = <<>> THEN <<>> ELSE Head(parts) \o Concat(Tail(parts))

WrapNotes == { Concat(q) : q \in SeqsUpTo(WrapBlocks, MaxBlocks) } \ { <<>> }

WrapEvent(notes) ==
    Event("2021-08-13", <<34>>, <<69>>, <<s_battles>>, s_clash, s_taliban, <<1>>, notes)

\* event files of one record, or of two records that share a key
WrapEventFiles ==
    { <<WrapEvent(n)>> : n \in WrapNotes }
    \cup { <<WrapEvent(n), WrapEvent(m)>> : n \in WrapNotes, m \in { <<"a">>, Rep("a", 50) } }

\* the event files with long notes, two indicator files
InitWrap == InitWith(SmallIndicatorFiles, WrapEventFiles)
SpecWrap == InitWrap /\ [][Next]_vars

----------------------------------------------------------------------------
(* Properties *)

MapAnswered == response.handler = "update_event_map" /\ response.status = "ok"
LineAnswered == response.handler = "update_line_plot_and_table" /\ response.status = "ok"
LineFailed == response.handler = "update_line_plot_and_table" /\ response.status # "ok"

RECURSIVE SumNumerosity(_)
SumNumerosity(clusters) ==
    IF clusters = <<>> THEN 0 ELSE Head(clusters).numerosity + SumNumerosity(Tail(clusters))

\* the records of the event table dated as the last request asked
RecordsOfDate == { i \in 1..Len(event_data) : event_data[i].event_date = request.selected_date }

\* whether cluster c carries the key cells of record r
CarriesKey(c, r) ==
    /\ r.latitude = <<c.latitude>>
    /\ r.longitude = <<c.longitude>>
    /\ r.event_type = <<c.event_type>>

\* C1: the counts of the clusters returned for a date sum to the number of
\* records of that date, records with an empty latitude, longitude or
\* event_type included.
C1_CountsSumToRecords ==
    MapAnswered => SumNumerosity(response.figure) = Cardinality(RecordsOfDate)

\* C2: no two clusters of an answer share (latitude, longitude, event_type),
\* and every record of the date is counted in exactly one cluster, the one
\* that carries the record's own key.
C2_OneClusterPerRecord ==
    MapAnswered =>
        LET clusters == response.figure
        IN  /\ \A g, h \in 1..Len(clusters) :
                   g # h => <<clusters[g].latitude, clusters[g].longitude, clusters[g].event_type>>
                            # <<clusters[h].latitude, clusters[h].longitude, clusters[h].event_type>>
            /\ \A i \in RecordsOfDate :
                   Cardinality({ g \in 1..Len(clusters) : CarriesKey(clusters[g], event_data[i]) }) = 1
            /\ \A g \in 1..Len(clusters) :
                   clusters[g].numerosity =
                       Cardinality({ i \in RecordsOfDate : CarriesKey(clusters[g], event_data[i]) })

\* C3: no row of the summary table has the value 0, the value being the
\* rounded number the row shows.
C3_NoZeroRow ==
    LineAnswered => \A k \in 1..Len(response.rows) : response.rows[k].Afghanistan # 0

\* the columns the table loop does not skip, in table order
TableColumns == SelectSeq(data_columns, LAMBDA col : col \notin Range(unavailable_table_cols))

\* the position in TableColumns of the column a row of the answer shows
ColumnOfRow(row) == CHOOSE k \in 1..Len(TableColumns) : Relabel(TableColumns[k]) = row.Country

\* the row of the indicator table the last request selected
SelectedRow == RowsAt(data, request.plot_date)[1]

\* C4: the summary rows are non-increasing by value and rows of equal value
\* keep the order of their columns; the rows are those of the columns
\* whose raw value is not zero, one each.
C4_SortedDescendingStable ==
    LineAnswered =>
        LET rows == response.rows
        IN  /\ \A i, j \in 1..Len(rows) :
                   i < j => /\ rows[i].Afghanistan >= rows[j].Afghanistan
                            /\ rows[i].Afghanistan = rows[j].Afghanistan
                                   => ColumnOfRow(rows[i]) < ColumnOfRow(rows[j])
            /\ \A k \in 1..Len(TableColumns) :
                   Cardinality({ i \in 1..Len(rows) : rows[i].Country = Relabel(TableColumns[k]) })
                       = IF SelectedRow[TableColumns[k]] # 0 THEN 1 ELSE 0
            /\ Len(rows) = Cardinality({ k \in 1..Len(TableColumns) : SelectedRow[TableColumns[k]] # 0 })

\* an answer whose table has rows of equal value and rows of different value
C4_Witness ==
    /\ LineAnswered
    /\ \E i, j \in 1..Len(response.rows) :
           i < j /\ response.rows[i].Afghanistan = response.rows[j].Afghanistan
    /\ \E i, j \in 1..Len(response.rows) :
           response.rows[i].Afghanistan > response.rows[j].Afghanistan

\* C5: wrapping a description that is already wrapped changes nothing:
\* add_br_to_description(add_br_to_description(x)) = add_br_to_description(x).
C5_WrapIdempotent ==
    MapAnswered =>
        \A g \in 1..Len(response.figure) :
            add_br_to_description(response.figure[g].description) = response.figure[g].description

\* the lines drawn over the line of the selected column
OverlaySeries ==
    { k \in 2..Len(response.figure) : response.figure[k].mode = "lines" }

\* C6: the figure has exactly one overlay line, the moving-average column
\* over the dates of the table, when 'violence index' is selected, and none
\* for any other column.
C6_OverlayOnlyForViolenceIndex ==
    LineAnswered =>
        IF request.selected_column = col_violence_index
        THEN /\ Cardinality(OverlaySeries) = 1
             /\ \A k \in OverlaySeries :
                    /\ response.figure[k].x = response.figure[1].x
                    /\ response.figure[k].x = Column(data, col_event_date)
                    /\ response.figure[k].y = Column(data, col_moving_avg)
        ELSE OverlaySeries = {}

\* an answer for 'violence index' that carries the overlay line
C6_Witness ==
    /\ LineAnswered
    /\ request.selected_column = col_violence_index
    /\ OverlaySeries # {}
    /\ Len(data) >= 2

\* an answer for the moving-average column itself
C6_WitnessOther ==
    LineAnswered /\ request.selected_column = col_moving_avg

\* the exception an unknown reference date ends the callback with (line 192)
UnknownDateError == "IndexError"

DatesOfTable == { data[i][col_event_date] : i \in 1..Len(data) }
MarkerDates == { to_datetime(Markers[m].event_date) : m \in 1..Len(Markers) }

\* C7: a reference date that no row of the table has makes the callback fail
\* with the unknown-date error; it returns no figure and no rows.
C7_UnknownDateFails ==
    (response.handler = "update_line_plot_and_table" /\ request.plot_date \notin DatesOfTable)
        => /\ response.status = UnknownDateError
           /\ response.figure = <<>>
           /\ response.rows = <<>>

\* a failed call whose reference date is the only date missing
C7_Witness ==
    /\ LineFailed
    /\ request.plot_date \notin DatesOfTable
    /\ MarkerDates \subseteq DatesOfTable
    /\ Len(data) >= 5

\* C8: each of the four markers is one point at its display date with the
\* selected column's value of the row of its event date; when a marker's
\* event date is missing from the table the call fails with an error that
\* is not the unknown-date error.
C8_MarkersOrDistinctError ==
    /\ LineAnswered =>
           \A m \in 1..Len(Markers) :
               \E k \in 1..Len(response.figure) :
                   /\ response.figure[k].name = Markers[m].name
                   /\ response.figure[k].mode = "markers"
                   /\ response.figure[k].x = <<to_datetime(Markers[m].display_date)>>
                   /\ response.figure[k].y =
                          <<RowsAt(data, to_datetime(Markers[m].event_date))[1][request.selected_column]>>
    /\ (response.handler = "update_line_plot_and_table"
            /\ request.plot_date \in DatesOfTable
            /\ ~(MarkerDates \subseteq DatesOfTable))
           => /\ response.status # "ok"
              /\ response.status # UnknownDateError

\* C9: whatever callbacks have run, failed ones included, the process still
\* serves and both tables are what the load produced from the files.
C9_TablesAsLoaded ==
    response.handler # "none" =>
        /\ pc = "serving"
        /\ data = FilterWindow(ParseDates(afghanistan_csv))
        /\ event_data = afg_csv

\* a map answer with clusters, given after a callback had failed
C9_Witness ==
    /\ "IndexError" \in log
    /\ MapAnswered
    /\ response.figure # <<>>
    /\ Len(data) >= 1

\* the rows of the indicator file, dates parsed, that lie strictly inside the window
RowsInWindow ==
    { j \in 1..Len(afghanistan_csv) :
        /\ windowStart < to_datetime(afghanistan_csv[j][col_event_date])
        /\ to_datetime(afghanistan_csv[j][col_event_date]) < windowEnd }

\* C10: after the load the indicator table holds exactly the rows of the
\* file dated strictly after 2020-01-01 and strictly before 2022-01-01.
C10_WindowStrict ==
    pc = "serving" =>
        /\ \A i \in 1..Len(data) :
               /\ data[i][col_event_date] > 20200101
               /\ data[i][col_event_date] < 20220101
               /\ \E j \in RowsInWindow : data[i] = ParseDates(afghanistan_csv)[j]
        /\ \A j \in RowsInWindow :
               \E i \in 1..Len(data) : data[i] = ParseDates(afghanistan_csv)[j]
        /\ Len(data) = Cardinality(RowsInWindow)

\* a load of a file that has rows at both window bounds and rows inside
C10_Witness ==
    /\ pc = "serving"
    /\ \E j \in 1..Len(afghanistan_csv) : afghanistan_csv[j][col_event_date] = <<2020, 1, 1>>
    /\ \E j \in 1..Len(afghanistan_csv) : afghanistan_csv[j][col_event_date] = <<2022, 1, 1>>
    /\ Len(data) >= 1
    /\ Len(data) < Len(afghanistan_csv)

====
